---------------------------- MODULE Spec2Model ----------------------------
(***************************************************************************)
(* A model of the schematic editor of src/main.py: the scene (components   *)
(* and wires), the wire construction state machine, selection and drag,    *)
(* and the snapshot based undo/redo.                                       *)
(*                                                                         *)
(* Conventions.                                                            *)
(*  - A point (pygame Vector2) is a pair <<x, y>> of integers.  Every      *)
(*    point the editor stores is integral: pointer positions are integer   *)
(*    pixels, pins are a grid position plus (+-20, 0) turned by a multiple *)
(*    of 90 degrees, and everything else goes through snap_to_grid.  The   *)
(*    one non-integral value, the projection of the pointer on a segment,  *)
(*    is kept as an exact fraction <<nx, ny, d>> = (nx/d, ny/d).           *)
(*  - Python's None is the empty tuple <<>>.                               *)
(*  - Python objects have identity.  A component object is named by a      *)
(*    reference: [k |-> "live", i |-> n] is the n-th element of the list   *)
(*    `components`; [k |-> "ghost", i |-> n] is a component object that is *)
(*    no longer in `components` (undo/redo replaced the list by a deep     *)
(*    copy) but is still reachable from the selection or from a wire under *)
(*    construction, so it can still be moved and rotated;                  *)
(*    [k |-> "copy", v |-> c] is the private copy of a component that      *)
(*    copy.deepcopy(wires) made for a wire attachment: nothing else refers *)
(*    to it, so it never changes and is kept by value.                     *)
(*  - One action is one event of the main loop's queue, handled to the     *)
(*    end by its handler and by main's code for that event, or one pass    *)
(*    through the drag block that main runs after the events of a frame.   *)
(*    A frame may handle any number of events, so events may follow each   *)
(*    other with no drag block in between.                                 *)
(*  - An exception raised in a handler leaves the main loop: `crashed`     *)
(*    is set and no action is enabled any more.                            *)
(*  - The camera is never panned (camera_offset stays Vector2(0, 0)), and  *)
(*    the drawing code, which changes no state, is left out.               *)
(***************************************************************************)
EXTENDS Integers, Sequences, FiniteSets, TLC

\* ===============================
\* 1. CONSTANTS & CONFIGURATION
\* ===============================
GRID_SIZE == 40
ROTATION_STEP == 90
SNAP_RADIUS == 8

None == <<>>

\* COMPONENT_PINS['resistor']; any other type has no pins (dict.get default).
COMPONENT_PINS(type) ==
    IF type = "resistor" THEN << <<-20, 0>>, <<20, 0>> >> ELSE << >>

\* Bounds of the model: the components placed, and the events of a session
\* (button releases are not counted).
MaxComponents == 2
MaxSteps == 6

\* The pointer positions (world = screen: the camera is never panned here).
\* Around a resistor placed at (80, 0): its two pins, a point of its body off
\* the pin axis, its centre, and a point of the next grid column.
MousePositions ==
    { <<60, 0>>, <<100, 0>>, <<80, 10>>, <<80, 0>>, <<120, 10>> }

\* ===============================
\* Vector2 helpers
\* ===============================
\* Truth value of a Vector2-or-None: None is false and so is Vector2(0, 0).
Truthy(v) == v # None /\ v # <<0, 0>>

Sub(a, b) == <<a[1] - b[1], a[2] - b[2]>>
Add(a, b) == <<a[1] + b[1], a[2] + b[2]>>
LengthSquared(v) == v[1] * v[1] + v[2] * v[2]
Dot(a, b) == a[1] * b[1] + a[2] * b[2]
Min(a, b) == IF a < b THEN a ELSE b
Max(a, b) == IF a > b THEN a ELSE b
Abs(a) == IF a < 0 THEN -a ELSE a

\* Python round() of the fraction n/d (d > 0): to nearest, ties to even.
RoundHalfEven(n, d) ==
    LET q == n \div d
        r == n - q * d
    IN  IF 2 * r < d THEN q
        ELSE IF 2 * r > d THEN q + 1
        ELSE IF q % 2 = 0 THEN q ELSE q + 1

\* ===============================
\* 2. UTILITY / MATH FUNCTIONS
\* ===============================
\* orthogonal_path with the vertical-then-horizontal corner as its default.
orthogonal_path_default_vh(a, b, mouse) ==
    IF a[1] = b[1] \/ a[2] = b[2] THEN << b >>
    ELSE IF Truthy(mouse)
              /\ LengthSquared(Sub(<<b[1], a[2]>>, mouse))
                    < LengthSquared(Sub(<<a[1], b[2]>>, mouse))
    THEN << <<b[1], a[2]>>, b >>
    ELSE << <<a[1], b[2]>>, b >>

orthogonal_path(a, b, mouse) ==
    IF a[1] = b[1] \/ a[2] = b[2] THEN << b >>
    ELSE LET corner_hv == <<b[1], a[2]>>
             corner_vh == <<a[1], b[2]>>
             corner == IF Truthy(mouse)
                       THEN IF LengthSquared(Sub(corner_hv, mouse))
                               < LengthSquared(Sub(corner_vh, mouse))
                            THEN corner_hv ELSE corner_vh
                       ELSE corner_hv
         IN  << corner, b >>

\* Vector2.rotate by a multiple of 90 degrees (pygame computes these exactly).
rotate_point(point, angle_deg) ==
    CASE angle_deg % 360 = 0   -> point
      [] angle_deg % 360 = 90  -> <<-point[2], point[1]>>
      [] angle_deg % 360 = 180 -> <<-point[1], -point[2]>>
      [] angle_deg % 360 = 270 -> <<point[2], -point[1]>>

RECURSIVE GCD(_, _)
GCD(a, b) == IF b = 0 THEN Abs(a) ELSE GCD(b, a % Abs(b))

\* The fraction <<nx, ny, d>> in lowest terms.
Reduce(q) ==
    LET g == GCD(GCD(q[1], q[2]), q[3])
    IN  <<q[1] \div g, q[2] \div g, q[3] \div g>>

\* The closest point of segment a-b to p, as the exact fraction <<nx, ny, d>>:
\* a + ab * t with t = max(0, min(1, (p - a).ab / |ab|^2)).
nearest_point_on_segment(a, b, p) ==
    LET ab == Sub(b, a)
        L == LengthSquared(ab)
    IN  IF L = 0 THEN <<a[1], a[2], 1>>
        ELSE LET k == Max(0, Min(L, Dot(Sub(p, a), ab)))
                 g == GCD(k, L)
             IN  Reduce(<<a[1] * (L \div g) + ab[1] * (k \div g),
                          a[2] * (L \div g) + ab[2] * (k \div g),
                          L \div g>>)

RECURSIVE clean_loop(_, _, _)
clean_loop(points, i, cleaned) ==
    IF i > Len(points) - 1 THEN Append(cleaned, points[Len(points)])
    ELSE LET prev == cleaned[Len(cleaned)]
             curr == points[i]
             nxt == points[i + 1]
         IN  IF (prev[1] = curr[1] /\ curr[1] = nxt[1])
                \/ (prev[2] = curr[2] /\ curr[2] = nxt[2])
             THEN clean_loop(points, i + 1, cleaned)
             ELSE clean_loop(points, i + 1, Append(cleaned, curr))

clean_collinear_points(points) ==
    IF Len(points) < 3 THEN points
    ELSE clean_loop(points, 2, << points[1] >>)

\* pygame.Rect(x, y, w, h) from two corners.
make_rect(a, b) ==
    [x |-> Min(a[1], b[1]), y |-> Min(a[2], b[2]),
     w |-> Abs(a[1] - b[1]), h |-> Abs(a[2] - b[2])]

\* ===============================
\* 3. COMPONENT HELPERS
\* ===============================
get_component_pins(comp) ==
    LET local_pins == COMPONENT_PINS(comp.type)
    IN  [n \in 1..Len(local_pins) |->
            Add(comp.pos, rotate_point(local_pins[n], comp.rotation))]

\* ===============================
\* 4. SNAPPING FUNCTIONS
\* ===============================
\* snap_to_grid of the fraction q = <<nx, ny, d>>.
snap_fraction(q) ==
    <<RoundHalfEven(q[1], GRID_SIZE * q[3]) * GRID_SIZE,
      RoundHalfEven(q[2], GRID_SIZE * q[3]) * GRID_SIZE>>

\* snap_to_grid that rounds a coordinate halfway between two grid lines up.
snap_to_grid_half_up(pos) ==
    << ((2 * pos[1] + GRID_SIZE) \div (2 * GRID_SIZE)) * GRID_SIZE,
       ((2 * pos[2] + GRID_SIZE) \div (2 * GRID_SIZE)) * GRID_SIZE >>

snap_to_grid(pos) == snap_fraction(<<pos[1], pos[2], 1>>)

\* The scan of snap_to_pins / snap_to_wire_points over the candidates in
\* iteration order: a candidate replaces the current one when d2 <= min_dist2.
RECURSIVE closest_scan(_, _, _, _, _)
closest_scan(cands, i, mouse_world, closest, min_dist2) ==
    IF i > Len(cands) THEN closest
    ELSE LET d2 == LengthSquared(Sub(cands[i], mouse_world))
         IN  IF d2 <= min_dist2
             THEN closest_scan(cands, i + 1, mouse_world, cands[i], d2)
             ELSE closest_scan(cands, i + 1, mouse_world, closest, min_dist2)

RECURSIVE Flatten(_)
Flatten(seqs) ==
    IF seqs = << >> THEN << >> ELSE Head(seqs) \o Flatten(Tail(seqs))

\* comps: a sequence of component values.
snap_to_pins(mouse_world, comps, radius) ==
    closest_scan(Flatten([n \in 1..Len(comps) |-> get_component_pins(comps[n])]),
                 1, mouse_world, None, radius * radius)

snap_to_wire_points(mouse_world, ws) ==
    closest_scan(Flatten([n \in 1..Len(ws) |-> ws[n].points]),
                 1, mouse_world, None, SNAP_RADIUS * SNAP_RADIUS)


\* ===============================
\* WORLD STATE (main)
\* ===============================
VARIABLES
    components,           \* list of component values {type, pos, rotation}
    ghosts,               \* component objects outside `components`, still referenced
    wires,                \* list of {points, attachments}
    active_wire,          \* None or the wire under construction
    selected_components,  \* list of component references
    drag_offsets,         \* list of Vector2
    selection_start,      \* None or a screen point
    selection_rect,       \* None or a Rect
    undo_stack,           \* list of snapshots
    redo_stack,           \* list of snapshots
    mouse_pressed,        \* pygame.mouse.get_pressed()[0]
    crashed,              \* an exception left the main loop
    last,                 \* history: what the last event was and did
    steps,                \* history: the events handled so far, releases aside
    call,                 \* a call of a utility function on its own, or None
    result                \* [done, value]: what that call returned

vars == <<components, ghosts, wires, active_wire, selected_components,
          drag_offsets, selection_start, selection_rect, undo_stack,
          redo_stack, mouse_pressed, crashed, last, steps, call, result>>

camera_offset == <<0, 0>>

\* ===============================
\* Component references
\* ===============================
Live(i) == [k |-> "live", i |-> i]
Ghost(i) == [k |-> "ghost", i |-> i]
Copy(c) == [k |-> "copy", v |-> c]

\* The component object a reference names.
Deref(ref, comps, ghs) ==
    CASE ref.k = "live" -> comps[ref.i]
      [] ref.k = "ghost" -> ghs[ref.i]
      [] ref.k = "copy" -> ref.v

\* A wire with every component reference r of its attachments replaced by F(r).
MapWire(w, F(_)) ==
    [points |-> w.points,
     attachments |->
        [n \in 1..Len(w.attachments) |->
            IF w.attachments[n] = None \/ w.attachments[n].comp = None
            THEN w.attachments[n]
            ELSE [comp |-> F(w.attachments[n].comp),
                  pin_idx |-> w.attachments[n].pin_idx]]]

MapWires(ws, F(_)) == [n \in 1..Len(ws) |-> MapWire(ws[n], F)]

\* ===============================
\* UNDO/REDO
\* ===============================
\* A copy of the wires that shares the attached component objects with the
\* scene it was taken from.
deepcopy_wires_shared(ws, comps, ghs) == ws

\* copy.deepcopy(wires): every attached component is copied with the wire.
deepcopy_wires(ws, comps, ghs) ==
    LET F(r) == Copy(Deref(r, comps, ghs)) IN MapWires(ws, F)

take_snapshot(comps, ghs, ws) ==
    [components |-> comps, wires |-> deepcopy_wires(ws, comps, ghs)]

\* record_undo: the stacks after it, as <<undo_stack, redo_stack>>.
record_undo(comps, ghs, ws) ==
    << Append(undo_stack, take_snapshot(comps, ghs, ws)), << >> >>

\* The live scene by value.
Scene == take_snapshot(components, ghosts, wires)

\* ===============================
\* Reference bookkeeping (what Python's reference counting does)
\* ===============================
WireRefs(w) ==
    { w.attachments[n].comp : n \in
        { j \in 1..Len(w.attachments) :
            w.attachments[j] # None /\ w.attachments[j].comp # None } }

GhostsUsed(ws, aw, sel) ==
    LET refs == UNION { WireRefs(ws[n]) : n \in 1..Len(ws) }
                \cup (IF aw = None THEN {} ELSE WireRefs(aw))
                \cup { sel[n] : n \in 1..Len(sel) }
    IN  { r.i : r \in { q \in refs : q.k = "ghost" } }

\* The next values of the five variables that hold component objects: the
\* ghosts nothing refers to any more are dropped and the rest renumbered.
Store(comps, ghs, ws, aw, sel) ==
    LET used == GhostsUsed(ws, aw, sel)
        Rank(i) == Cardinality({ j \in used : j <= i })
        F(r) == IF r.k = "ghost" THEN Ghost(Rank(r.i)) ELSE r
    IN  /\ components' = comps
        /\ ghosts' = [n \in 1..Cardinality(used) |->
                        ghs[CHOOSE i \in used : Rank(i) = n]]
        /\ wires' = MapWires(ws, F)
        /\ active_wire' = IF aw = None THEN None ELSE MapWire(aw, F)
        /\ selected_components' = [n \in 1..Len(sel) |-> F(sel[n])]

\* ===============================
\* 5. WIRE HELPERS
\* ===============================
\* Whether the fraction q lies within `radius` of the integral point p.
WithinRadius(q, p, radius) ==
    LET dx == q[1] - p[1] * q[3]
        dy == q[2] - p[2] * q[3]
    IN  /\ Abs(dx) <= radius * q[3]
        /\ Abs(dy) <= radius * q[3]
        /\ dx * dx + dy * dy <= radius * radius * q[3] * q[3]

\* The segments <<wire index, index of the start point>> within the radius.
SegmentHits(ws, mouse_world, radius) ==
    { s \in UNION { { <<w, i>> : i \in 1..(Len(ws[w].points) - 1) } :
                    w \in 1..Len(ws) } :
        WithinRadius(nearest_point_on_segment(ws[s[1]].points[s[2]],
                                              ws[s[1]].points[s[2] + 1],
                                              mouse_world),
                     mouse_world, radius) }

\* The first of a set of index pairs, in the order of the nested loops.
FirstPair(pairs) ==
    CHOOSE h \in pairs :
        \A g \in pairs : h[1] < g[1] \/ (h[1] = g[1] /\ h[2] <= g[2])

\* What find_wire_segment_at_mouse returns for the segment s = <<wire, start>>.
segment_hit(ws, s, mouse_world) ==
    [wire |-> s[1], idx |-> s[2],
     closest |-> nearest_point_on_segment(ws[s[1]].points[s[2]],
                                          ws[s[1]].points[s[2] + 1],
                                          mouse_world)]

first_segment_hit(ws, hits, mouse_world) ==
    IF hits = {} THEN None ELSE segment_hit(ws, FirstPair(hits), mouse_world)

\* None, or [wire |-> index in ws, idx |-> start point (1-based), closest |-> q]
\* for the first segment of the first wire within the radius.
find_wire_segment_at_mouse(ws, mouse_world, radius) ==
    first_segment_hit(ws, SegmentHits(ws, mouse_world, radius), mouse_world)

\* One wire of update_wire_attachments, from attachment i on: the points after
\* it and whether it raised.  An attachment is any non-None tuple; (None, None)
\* raises TypeError in get_component_pins, an index past the points IndexError.
RECURSIVE update_one_wire(_, _, _, _, _)
update_one_wire(points, attachments, i, comps, ghs) ==
    IF i > Len(attachments) THEN [points |-> points, raised |-> FALSE]
    ELSE LET attach == attachments[i]
         IN  IF attach = None
             THEN update_one_wire(points, attachments, i + 1, comps, ghs)
             ELSE IF attach.comp = None \/ i > Len(points)
             THEN [points |-> points, raised |-> TRUE]
             ELSE update_one_wire(
                    [points EXCEPT ![i] =
                        get_component_pins(Deref(attach.comp, comps, ghs))
                            [attach.pin_idx + 1]],
                    attachments, i + 1, comps, ghs)

\* update_wire_attachments from wire n on: [wires, raised].  The wires after
\* the one that raised are left as they were.
RECURSIVE update_wire_attachments_from(_, _, _, _)
update_wire_attachments_from(ws, n, comps, ghs) ==
    IF n > Len(ws) THEN [wires |-> ws, raised |-> FALSE]
    ELSE LET r == update_one_wire(ws[n].points, ws[n].attachments, 1, comps, ghs)
             ws1 == [ws EXCEPT ![n].points = r.points]
         IN  IF r.raised THEN [wires |-> ws1, raised |-> TRUE]
             ELSE update_wire_attachments_from(ws1, n + 1, comps, ghs)

update_wire_attachments(ws, comps, ghs) ==
    update_wire_attachments_from(ws, 1, comps, ghs)

\* list.remove(x): without the first element equal (by value) to x.
RemoveFirst(seq, x, Val(_)) ==
    LET j == CHOOSE n \in 1..Len(seq) :
                Val(seq[n]) = Val(x) /\ \A q \in 1..(n - 1) : Val(seq[q]) # Val(x)
    IN  SubSeq(seq, 1, j - 1) \o SubSeq(seq, j + 1, Len(seq))

\* The wires after delete_wire_under_mouse.
delete_wire_under_mouse(ws, mouse_world, comps, ghs) ==
    LET hit == find_wire_segment_at_mouse(ws, mouse_world, SNAP_RADIUS)
        Val(w) == LET F(r) == Copy(Deref(r, comps, ghs)) IN MapWire(w, F)
    IN  IF hit = None THEN ws ELSE RemoveFirst(ws, ws[hit.wire], Val)

\* ===============================
\* 6. SELECTION & DRAGGING
\* ===============================
\* drag_components that keeps the offset to the pointer without snapping.
drag_components_unsnapped(sel, offsets, mouse_world) ==
    [n \in 1..Min(Len(sel), Len(offsets)) |-> Add(mouse_world, offsets[n])]

drag_components(sel, offsets, mouse_world) ==
    [n \in 1..Min(Len(sel), Len(offsets)) |->
        snap_to_grid(Add(mouse_world, offsets[n]))]

world_to_screen(pos, cam) == Sub(pos, cam)
screen_to_world(pos, cam) == Add(pos, cam)

\* pygame.Rect.collidepoint: the right and bottom edges are outside.
collidepoint(rect, p) ==
    /\ rect.x <= p[1] /\ p[1] < rect.x + rect.w
    /\ rect.y <= p[2] /\ p[2] < rect.y + rect.h

\* Truth value of a Rect-or-None: a Rect is true when w and h are non-zero.
RectTruthy(rect) == rect # None /\ rect.w # 0 /\ rect.h # 0

\* The indices in `components`, in list order, of the components inside the
\* rectangle.
box_select_components(comps, rect, cam) ==
    LET Inside(n) == collidepoint(rect, world_to_screen(comps[n].pos, cam))
    IN  SelectSeq([n \in 1..Len(comps) |-> n], Inside)

\* The pins <<component index, 0-based pin>> within SNAP_RADIUS of the pointer.
PinsNear(mouse_world, comps) ==
    { c \in UNION { { <<n, i>> :
                        i \in 0..(Len(get_component_pins(comps[n])) - 1) } :
                    n \in 1..Len(comps) } :
        LengthSquared(Sub(get_component_pins(comps[c[1]])[c[2] + 1], mouse_world))
            <= SNAP_RADIUS * SNAP_RADIUS }

first_pin_hit(near) ==
    IF near = {} THEN None
    ELSE [comp |-> FirstPair(near)[1], pin_idx |-> FirstPair(near)[2]]

\* None, or [comp |-> index in comps, pin_idx |-> 0-based pin] of the first pin
\* within SNAP_RADIUS.
find_component_and_pin_under_mouse(mouse_world, comps) ==
    first_pin_hit(PinsNear(mouse_world, comps))

\* ===============================
\* 9. INPUTS
\* ===============================
\* list.insert(i0, x), i0 a 0-based index: past the end it appends.
InsertAt(seq, i0, x) ==
    LET k == Min(i0, Len(seq))
    IN  SubSeq(seq, 1, k) \o << x >> \o SubSeq(seq, k + 1, Len(seq))

\* The insertion loop of the splice: every point of the path other than `prev`
\* goes into points and a None into attachments at idx0 + 1, and idx0 advances.
RECURSIVE splice_loop(_, _, _, _, _, _)
splice_loop(path, j, prev, points, attachments, idx0) ==
    IF j > Len(path) THEN [points |-> points, attachments |-> attachments]
    ELSE IF path[j] # prev
    THEN splice_loop(path, j + 1, prev, InsertAt(points, idx0 + 1, path[j]),
                     InsertAt(attachments, idx0 + 1, None), idx0 + 1)
    ELSE splice_loop(path, j + 1, prev, points, attachments, idx0)

\* The hit wire after the splice at clicked_pin: the insertion, then
\* clean_collinear_points on the points alone.
splice_wire(w, idx, clicked_pin, mouse_world) ==
    LET prev == w.points[idx]
        r == splice_loop(orthogonal_path(prev, clicked_pin, mouse_world), 1, prev,
                         w.points, w.attachments, idx - 1)
    IN  [points |-> clean_collinear_points(r.points),
         attachments |-> r.attachments]

\* The active wire after the points of the path other than its last point are
\* appended, each with a None attachment.
extend_wire(aw, new_point, mouse_world) ==
    LET lst == aw.points[Len(aw.points)]
        NotLast(p) == p # lst
        added == SelectSeq(orthogonal_path(lst, new_point, mouse_world), NotLast)
    IN  [points |-> aw.points \o added,
         attachments |-> aw.attachments \o [n \in 1..Len(added) |-> None]]

\* What a left click resolves to, given the snapped pin, the (comp, pin_idx)
\* found for it and the segment hit: the pin, else the wire segment (with the
\* hit wire spliced), else nothing.
resolve_target(mouse_world, pin, found, seg, clicked_pin) ==
    [kind |-> IF Truthy(pin) THEN "pin"
              ELSE IF seg # None THEN "segment" ELSE "none",
     clicked_pin |-> clicked_pin,
     \* the tuple (comp, pin_idx)
     attach |-> IF found = None \/ seg # None
                THEN [comp |-> None, pin_idx |-> None]
                ELSE [comp |-> Live(found.comp), pin_idx |-> found.pin_idx],
     \* the index of the hit wire, 0 when no segment was hit
     wire |-> IF seg = None THEN 0 ELSE seg.wire,
     wires |-> IF seg = None THEN wires
               ELSE [wires EXCEPT ![seg.wire] =
                        splice_wire(wires[seg.wire], seg.idx, clicked_pin,
                                    mouse_world)]]

resolve_segment(mouse_world, pin, found, seg) ==
    resolve_target(mouse_world, pin, found, seg,
                   IF seg = None THEN pin ELSE snap_fraction(seg.closest))

resolve_pin(mouse_world, pin) ==
    resolve_segment(mouse_world, pin,
        IF Truthy(pin)
        THEN find_component_and_pin_under_mouse(mouse_world, components)
        ELSE None,
        IF Truthy(pin) THEN None
        ELSE find_wire_segment_at_mouse(wires, mouse_world, SNAP_RADIUS))

\* Lines 501-517 of handle_mouse_button_down.
resolve_click(mouse_world) ==
    resolve_pin(mouse_world, snap_to_pins(mouse_world, components, SNAP_RADIUS))

\* The index of the first component whose body is under the pointer, 0 when
\* there is none.
clicked_component(mouse_world) ==
    LET under == { n \in 1..Len(components) :
                     4 * LengthSquared(Sub(components[n].pos,
                                           snap_to_grid(mouse_world)))
                       < GRID_SIZE * GRID_SIZE }
    IN  IF under = {} THEN 0
        ELSE CHOOSE n \in under : \A q \in under : n <= q

\* `comp in selected_components` for the live component n: list membership is
\* by ==, and two component dicts are == when their fields are.
InSelection(n, sel) ==
    \E j \in 1..Len(sel) : Deref(sel[j], components, ghosts) = components[n]

\* The events that count as scene mutating editor actions.
MutatingOps == {"place", "key_r", "key_x", "left_down"}

\* The history record of a step: the event, the pointer of a click, whether the
\* step was an editor action that changed the scene (mut) or the undo right
\* after one (um), the scene before such a step, and whether an undo has been
\* made that no redo and no scene change has followed yet (undone),
\* whether an undo or redo found a snapshot on its stack (restored), the scene
\* and the stacks an undo or redo started from (before), and whether this step
\* is a redo right after an undo or an undo right after a redo, both of which
\* restored a snapshot (pair).
Record(op, mouse) ==
    LET mut == op \in MutatingOps /\ Scene' # Scene
        um == op = "undo" /\ last.mut
    IN  /\ IF op = "left_up" THEN steps' = steps
           ELSE steps < MaxSteps /\ steps' = steps + 1
        /\ UNCHANGED <<call, result>>
        /\ last' = [op |-> op, mouse |-> mouse, mut |-> mut, um |-> um,
                    restored |-> \/ op = "undo" /\ undo_stack # << >>
                                 \/ op = "redo" /\ redo_stack # << >>,
                    scene |-> IF mut \/ um THEN Scene ELSE None,
                    undone |-> IF op = "undo" THEN TRUE
                               ELSE IF op = "redo" \/ mut THEN FALSE
                               ELSE last.undone,
                    before |-> IF op \in {"undo", "redo"}
                               THEN [scene |-> Scene, undo_stack |-> undo_stack,
                                     redo_stack |-> redo_stack]
                               ELSE None,
                    pair |-> /\ last.restored
                             /\ \/ op = "redo" /\ last.op = "undo" /\ redo_stack # << >>
                                \/ op = "undo" /\ last.op = "redo" /\ undo_stack # << >>]

WithinBounds == Len(components') <= MaxComponents

\* undo() that saves the current state to the redo stack before it looks at
\* the undo stack.
undo_saves_first(us, rs, comps, ghs, ws) ==
    IF us = << >>
    THEN [restored |-> FALSE, undo_stack |-> us,
          redo_stack |-> Append(rs, take_snapshot(comps, ghs, ws))]
    ELSE [restored |-> TRUE,
          undo_stack |-> SubSeq(us, 1, Len(us) - 1),
          redo_stack |-> Append(rs, take_snapshot(comps, ghs, ws)),
          components |-> us[Len(us)].components,
          wires |-> us[Len(us)].wires]

\* undo(): the scene and the stacks after it.
undo(us, rs, comps, ghs, ws) ==
    IF us = << >>
    THEN [restored |-> FALSE, undo_stack |-> us, redo_stack |-> rs]
    ELSE [restored |-> TRUE,
          undo_stack |-> SubSeq(us, 1, Len(us) - 1),
          redo_stack |-> Append(rs, take_snapshot(comps, ghs, ws)),
          components |-> us[Len(us)].components,
          wires |-> us[Len(us)].wires]

\* redo() that restores the next state without saving the current one.
redo_without_save(us, rs, comps, ghs, ws) ==
    IF rs = << >>
    THEN [restored |-> FALSE, undo_stack |-> us, redo_stack |-> rs]
    ELSE [restored |-> TRUE,
          undo_stack |-> us,
          redo_stack |-> SubSeq(rs, 1, Len(rs) - 1),
          components |-> rs[Len(rs)].components,
          wires |-> rs[Len(rs)].wires]

\* redo(): the scene and the stacks after it.
redo(us, rs, comps, ghs, ws) ==
    IF rs = << >>
    THEN [restored |-> FALSE, undo_stack |-> us, redo_stack |-> rs]
    ELSE [restored |-> TRUE,
          undo_stack |-> Append(us, take_snapshot(comps, ghs, ws)),
          redo_stack |-> SubSeq(rs, 1, Len(rs) - 1),
          components |-> rs[Len(rs)].components,
          wires |-> rs[Len(rs)].wires]

\* main rebinds `components` and `wires` to the deep copies undo/redo return.
\* The objects of the old list stay alive where the selection or the wire
\* under construction refer to them.
Rebind(r) ==
    LET F(q) == IF q.k = "live" THEN Ghost(Len(ghosts) + q.i) ELSE q
    IN  /\ undo_stack' = r.undo_stack
        /\ redo_stack' = r.redo_stack
        /\ IF r.restored
           THEN Store(r.components, ghosts \o components, r.wires,
                      IF active_wire = None THEN None ELSE MapWire(active_wire, F),
                      [n \in 1..Len(selected_components) |->
                          F(selected_components[n])])
           ELSE UNCHANGED <<components, ghosts, wires, active_wire,
                            selected_components>>

\* A component object with field f set to v: <<components, ghosts>> after it.
SetField(ref, comps, ghs, f, v) ==
    CASE ref.k = "live" -> << [comps EXCEPT ![ref.i][f] = v], ghs >>
      [] ref.k = "ghost" -> << comps, [ghs EXCEPT ![ref.i][f] = v] >>

\* for comp in selected_components: comp['rotation'] = (... + 90) % 360
RECURSIVE rotate_loop(_, _, _, _)
rotate_loop(sel, n, comps, ghs) ==
    IF n > Len(sel) THEN << comps, ghs >>
    ELSE LET o == SetField(sel[n], comps, ghs, "rotation",
                    (Deref(sel[n], comps, ghs).rotation + ROTATION_STEP) % 360)
         IN  rotate_loop(sel, n + 1, o[1], o[2])

\* for comp, pos in zip(selected_components, new_positions): comp["pos"] = pos
RECURSIVE move_loop(_, _, _, _, _)
move_loop(sel, new_positions, n, comps, ghs) ==
    IF n > Min(Len(sel), Len(new_positions)) THEN << comps, ghs >>
    ELSE LET o == SetField(sel[n], comps, ghs, "pos", new_positions[n])
         IN  move_loop(sel, new_positions, n + 1, o[1], o[2])

\* for comp in box_selected: if comp not in selected_components: append
RECURSIVE union_loop(_, _, _)
union_loop(box, n, sel) ==
    IF n > Len(box) THEN sel
    ELSE union_loop(box, n + 1,
                    IF InSelection(box[n], sel) THEN sel
                    ELSE Append(sel, Live(box[n])))

\* handle_mouse_button_up: the selection after it.
handle_mouse_button_up(rect, shift) ==
    IF RectTruthy(rect)
    THEN LET box == box_select_components(components, rect, camera_offset)
         IN  IF shift THEN union_loop(box, 1, selected_components)
             ELSE [n \in 1..Len(box) |-> Live(box[n])]
    ELSE selected_components

\* -------------------------------------------------------------------------
\* The events.  One action is one event of the main loop's queue, handled to
\* the end, or one pass through the drag block of a frame.
\* -------------------------------------------------------------------------

\* Lines 519-569 of handle_mouse_button_down, for the resolved target t, the
\* point new_point of the wire and the clicked component cc.
left_click(m, shift, t, new_point, cc) ==
    LET routing == active_wire # None
        ext == extend_wire(active_wire, new_point, m)
        sel1 == IF shift
                THEN IF InSelection(cc, selected_components)
                     THEN selected_components
                     ELSE Append(selected_components, Live(cc))
                ELSE << Live(cc) >>
    IN  IF Truthy(t.clicked_pin) \/ t.wire # 0
        THEN /\ IF ~routing
                THEN /\ Store(components, ghosts, t.wires,
                              [points |-> << new_point >>,
                               attachments |->
                                  << IF Truthy(t.clicked_pin) THEN t.attach
                                     ELSE None >>],
                              selected_components)
                     /\ UNCHANGED <<undo_stack, redo_stack>>
                ELSE IF Truthy(t.clicked_pin)
                THEN /\ undo_stack' = record_undo(components, ghosts, t.wires)[1]
                     /\ redo_stack' = record_undo(components, ghosts, t.wires)[2]
                     /\ Store(components, ghosts,
                              Append(t.wires,
                                     [ext EXCEPT
                                        !.attachments[Len(ext.attachments)] =
                                           t.attach]),
                              None, selected_components)
                ELSE /\ Store(components, ghosts, t.wires, ext,
                              selected_components)
                     /\ UNCHANGED <<undo_stack, redo_stack>>
             /\ UNCHANGED <<drag_offsets, selection_start>>
        ELSE IF cc # 0
        THEN /\ undo_stack' = record_undo(components, ghosts, wires)[1]
             /\ redo_stack' = record_undo(components, ghosts, wires)[2]
             /\ Store(components, ghosts, wires, active_wire, sel1)
             /\ drag_offsets' =
                  [n \in 1..Len(sel1) |->
                      Sub(Deref(sel1[n], components, ghosts).pos, m)]
             /\ selection_start' = None
        ELSE /\ Store(components, ghosts, wires, active_wire, << >>)
             /\ selection_start' = world_to_screen(m, camera_offset)
             /\ UNCHANGED <<undo_stack, redo_stack, drag_offsets>>

left_click_on(m, shift, t) ==
    left_click(m, shift, t,
               IF Truthy(t.clicked_pin) THEN t.clicked_pin ELSE snap_to_grid(m),
               clicked_component(m))

\* MOUSEBUTTONDOWN, button 1.
LeftDown(m, shift) ==
    /\ ~crashed /\ ~mouse_pressed
    /\ left_click_on(m, shift, resolve_click(m))
    /\ Record("left_down", m)
    /\ mouse_pressed' = TRUE
    /\ UNCHANGED <<selection_rect, crashed>>

\* MOUSEBUTTONDOWN, button 3: place a new component.
RightDown(m) ==
    /\ ~crashed
    /\ undo_stack' = record_undo(components, ghosts, wires)[1]
    /\ redo_stack' = record_undo(components, ghosts, wires)[2]
    /\ Store(Append(components,
                    [type |-> "resistor", pos |-> snap_to_grid(m), rotation |-> 0]),
             ghosts, wires, active_wire, selected_components)
    /\ Record("place", m)
    /\ UNCHANGED <<drag_offsets, selection_start, selection_rect, mouse_pressed,
                   crashed>>
    /\ WithinBounds

\* KEYDOWN K_r: rotate the selection.
KeyR ==
    /\ ~crashed
    /\ undo_stack' = record_undo(components, ghosts, wires)[1]
    /\ redo_stack' = record_undo(components, ghosts, wires)[2]
    /\ LET o == rotate_loop(selected_components, 1, components, ghosts)
       IN  Store(o[1], o[2], wires, active_wire, selected_components)
    /\ Record("key_r", None)
    /\ UNCHANGED <<drag_offsets, selection_start, selection_rect, mouse_pressed,
                   crashed>>

\* KEYDOWN K_x: delete the wire under the pointer.
KeyX(m) ==
    /\ ~crashed
    /\ undo_stack' = record_undo(components, ghosts, wires)[1]
    /\ redo_stack' = record_undo(components, ghosts, wires)[2]
    /\ Store(components, ghosts,
             delete_wire_under_mouse(wires, m, components, ghosts),
             active_wire, selected_components)
    /\ Record("key_x", None)
    /\ UNCHANGED <<drag_offsets, selection_start, selection_rect, mouse_pressed,
                   crashed>>

\* KEYDOWN K_ESCAPE: cancel the wire under construction.
KeyEscape ==
    /\ ~crashed
    /\ Store(components, ghosts, wires, None, selected_components)
    /\ Record("key_escape", None)
    /\ UNCHANGED <<drag_offsets, selection_start, selection_rect, undo_stack,
                   redo_stack, mouse_pressed, crashed>>

\* KEYDOWN Ctrl+Z.
Undo ==
    /\ ~crashed
    /\ Rebind(undo(undo_stack, redo_stack, components, ghosts, wires))
    /\ Record("undo", None)
    /\ UNCHANGED <<drag_offsets, selection_start, selection_rect, mouse_pressed,
                   crashed>>

\* KEYDOWN Ctrl+Y.
Redo ==
    /\ ~crashed
    /\ Rebind(redo(undo_stack, redo_stack, components, ghosts, wires))
    /\ Record("redo", None)
    /\ UNCHANGED <<drag_offsets, selection_start, selection_rect, mouse_pressed,
                   crashed>>

\* MOUSEMOTION.
MouseMotion(m) ==
    /\ ~crashed
    /\ selection_rect' =
         IF Truthy(selection_start)
         THEN make_rect(selection_start, world_to_screen(m, camera_offset))
         ELSE None
    /\ selection_rect' # selection_rect
    /\ Record("mouse_motion", None)
    /\ UNCHANGED <<components, ghosts, wires, active_wire, selected_components,
                   drag_offsets, selection_start, undo_stack, redo_stack,
                   mouse_pressed, crashed>>

\* MOUSEBUTTONUP, button 1.
LeftUp(shift) ==
    /\ ~crashed /\ mouse_pressed
    /\ Store(components, ghosts, wires, active_wire,
             handle_mouse_button_up(selection_rect, shift))
    /\ selection_start' = None
    /\ selection_rect' = None
    /\ drag_offsets' = << >>
    /\ mouse_pressed' = FALSE
    /\ Record("left_up", None)
    /\ UNCHANGED <<undo_stack, redo_stack, crashed>>

\* The drag block of a frame (lines 884-893).
DragFrame(m) ==
    /\ ~crashed
    /\ selected_components # << >> /\ drag_offsets # << >> /\ mouse_pressed
    /\ LET o == move_loop(selected_components,
                          drag_components(selected_components, drag_offsets, m),
                          1, components, ghosts)
           u == update_wire_attachments(wires, o[1], o[2])
       IN  /\ Store(o[1], o[2], u.wires, active_wire, selected_components)
           /\ crashed' = u.raised
    /\ Record("drag_frame", None)
    /\ UNCHANGED <<drag_offsets, selection_start, selection_rect, undo_stack,
                   redo_stack, mouse_pressed>>

InitEditor ==
    /\ components = << >>
    /\ ghosts = << >>
    /\ wires = << >>
    /\ active_wire = None
    /\ selected_components = << >>
    /\ drag_offsets = << >>
    /\ selection_start = None
    /\ selection_rect = None
    /\ undo_stack = << take_snapshot(<< >>, << >>, << >>) >>
    /\ redo_stack = << >>
    /\ mouse_pressed = FALSE
    /\ crashed = FALSE
    /\ steps = 0
    /\ last = [op |-> "init", mouse |-> None, mut |-> FALSE, um |-> FALSE,
               restored |-> FALSE, scene |-> None, undone |-> FALSE,
               before |-> None, pair |-> FALSE]

Init ==
    /\ InitEditor
    /\ call = None
    /\ result = [done |-> FALSE]

Next ==
    \/ \E m \in MousePositions, shift \in BOOLEAN : LeftDown(m, shift)
    \/ \E shift \in BOOLEAN : LeftUp(shift)
    \/ \E m \in MousePositions : RightDown(m)
    \/ \E m \in MousePositions : MouseMotion(m)
    \/ \E m \in MousePositions : DragFrame(m)
    \/ \E m \in MousePositions : KeyX(m)
    \/ KeyR
    \/ KeyEscape
    \/ Undo
    \/ Redo

Spec == Init /\ [][Next]_vars

\* -------------------------------------------------------------------------
\* The editor from the scene with two resistors on: one placed with the
\* pointer at (120, 10), then one with the pointer at (80, 0).  It is the state
\* Spec is in after these two placements; `steps` counts the events handled
\* from there on, and no further component is placed.
\* -------------------------------------------------------------------------
PlacedFirst == [type |-> "resistor", pos |-> snap_to_grid(<<120, 10>>), rotation |-> 0]
PlacedSecond == [type |-> "resistor", pos |-> snap_to_grid(<<80, 0>>), rotation |-> 0]

\* The editor's own variables after the two placements.
TwoPlaced ==
    /\ components = << PlacedFirst, PlacedSecond >>
    /\ ghosts = << >>
    /\ wires = << >>
    /\ active_wire = None
    /\ selected_components = << >>
    /\ drag_offsets = << >>
    /\ selection_start = None
    /\ selection_rect = None
    /\ undo_stack = << take_snapshot(<< >>, << >>, << >>),
                       take_snapshot(<< >>, << >>, << >>),
                       take_snapshot(<< PlacedFirst >>, << >>, << >>) >>
    /\ redo_stack = << >>
    /\ mouse_pressed = FALSE
    /\ crashed = FALSE

InitTwoPlaced ==
    /\ TwoPlaced
    /\ steps = 0
    /\ last = [op |-> "place", mouse |-> <<80, 0>>, mut |-> TRUE, um |-> FALSE,
               restored |-> FALSE,
               scene |-> take_snapshot(<< PlacedFirst >>, << >>, << >>),
               undone |-> FALSE, before |-> None, pair |-> FALSE]
    /\ call = None
    /\ result = [done |-> FALSE]

NextTwoPlaced ==
    \/ \E m \in MousePositions, shift \in BOOLEAN : LeftDown(m, shift)
    \/ \E shift \in BOOLEAN : LeftUp(shift)
    \/ \E m \in MousePositions : MouseMotion(m)
    \/ \E m \in MousePositions : DragFrame(m)
    \/ \E m \in MousePositions : KeyX(m)
    \/ KeyR
    \/ KeyEscape
    \/ Undo
    \/ Redo

SpecTwoPlaced == InitTwoPlaced /\ [][NextTwoPlaced]_vars

\* -------------------------------------------------------------------------
\* The utility functions on their own: the editor is left in its initial
\* state, a call with its arguments is drawn at the start, and one step
\* applies the function.
\* -------------------------------------------------------------------------
\* Bounds of the calls: the points of orthogonal_path are 10 * (0..MaxPathStep)
\* in x and y, those of clean_collinear_points 0..MaxCleanCoord in x and y, in
\* lists of up to MaxCleanLen points.
MaxPathStep == 2
MaxCleanCoord == 1
MaxCleanLen == 4

PathPoints == { <<10 * i, 10 * j>> : i, j \in 0..MaxPathStep }
CleanPoints == { <<i, j>> : i, j \in 0..MaxCleanCoord }

\* The lists of at most n elements of S.
SeqsUpTo(S, n) == UNION { [1..k -> S] : k \in 0..n }

\* Resistors on grid positions, for snap_to_pins, and the pointers tried on
\* them: on a pin, within and just outside SNAP_RADIUS of one, and at equal
\* distance of two.
SnapComponents ==
    { [type |-> "resistor", pos |-> p, rotation |-> r] :
        p \in { <<0, 0>>, <<40, 0>> }, r \in { 0, 90 } }
SnapPointers ==
    { <<0, 0>>, <<20, 0>>, <<20, 8>>, <<20, 9>>, <<25, 5>>, <<20, 20>> }
SnapRadii == { SNAP_RADIUS, 20 }

Calls ==
    { [fn |-> "orthogonal_path", a |-> a, b |-> b, mouse |-> m] :
        a \in PathPoints, b \in PathPoints, m \in PathPoints \cup { None } }
    \cup { [fn |-> "clean_collinear_points", points |-> P] :
             P \in SeqsUpTo(CleanPoints, MaxCleanLen) }
    \cup { [fn |-> "snap_to_pins", mouse_world |-> m, components |-> cs,
            radius |-> r] :
             m \in SnapPointers, cs \in SeqsUpTo(SnapComponents, MaxComponents),
             r \in SnapRadii }

editor_vars == <<components, ghosts, wires, active_wire, selected_components,
                 drag_offsets, selection_start, selection_rect, undo_stack,
                 redo_stack, mouse_pressed, crashed, last, steps>>

InitFn ==
    /\ InitEditor
    /\ call \in Calls
    /\ result = [done |-> FALSE]

Return(value) ==
    /\ ~result.done
    /\ result' = [done |-> TRUE, value |-> value]
    /\ UNCHANGED <<editor_vars, call>>

ApplyOrthogonalPath ==
    /\ call.fn = "orthogonal_path"
    /\ Return(orthogonal_path(call.a, call.b, call.mouse))

ApplyCleanCollinearPoints ==
    /\ call.fn = "clean_collinear_points"
    /\ Return(clean_collinear_points(call.points))

ApplySnapToPins ==
    /\ call.fn = "snap_to_pins"
    /\ Return(snap_to_pins(call.mouse_world, call.components, call.radius))

NextFn ==
    \/ ApplyOrthogonalPath
    \/ ApplyCleanCollinearPoints
    \/ ApplySnapToPins

SpecFn == InitFn /\ [][NextFn]_vars

\* -------------------------------------------------------------------------
\* Properties
\* -------------------------------------------------------------------------
\* The drag block runs in the next frame.
DragActive ==
    selected_components # << >> /\ drag_offsets # << >> /\ mouse_pressed

\* The attachments <<wire, index>> of the committed wires that are not None.
Attached ==
    { a \in UNION { { <<w, i>> : i \in 1..Len(wires[w].attachments) } :
                    w \in 1..Len(wires) } :
        wires[a[1]].attachments[a[2]] # None }

\* Attachment a names a component of the live scene, and the wire has a point
\* at a's index which lies on the named pin of that component.
OnLivePin(a) ==
    LET w == wires[a[1]]
        att == w.attachments[a[2]]
    IN  /\ att.comp # None
        /\ att.comp.k = "live"
        /\ a[2] <= Len(w.points)
        /\ w.points[a[2]] =
             get_component_pins(components[att.comp.i])[att.pin_idx + 1]

\* The attachments whose component is in the selection.
AttachedToSelection ==
    { a \in Attached :
        \E n \in 1..Len(selected_components) :
            wires[a[1]].attachments[a[2]].comp = selected_components[n] }

\* C1: an editor action that changes the scene, then undo, gives back the
\* scene the action started from, and a redo after that the scene it produced.
C1_UndoRedoRoundTrip ==
    [][ /\ (last.mut /\ last'.op = "undo") => Scene' = last.scene
        /\ (last.um /\ last'.op = "redo") => Scene' = last.scene ]_vars

\* C2: every editor action that changes the scene pushes on the undo stack a
\* snapshot equal to the scene as it was before the action.
C2_SnapshotBeforeMutation ==
    [][ last'.mut => undo_stack' = Append(undo_stack, Scene) ]_vars

\* C3: after an undo, a new scene-changing editor action with no redo in
\* between leaves the redo stack empty.
C3_RedoClearedByNewAction ==
    [][ (last.undone /\ last'.mut) => redo_stack' = << >> ]_vars

\* C4: after a drag frame of a component with an attached wire endpoint, every
\* attachment of every committed wire lies on the pin of a component of the
\* live scene.
C4_AttachmentsFollowDrag ==
    (last.op = "drag_frame" /\ AttachedToSelection # {})
        => \A a \in Attached : OnLivePin(a)

\* C5: after a rotation of a selected component with attached wire endpoints,
\* no drag being in progress, every such endpoint lies on the pin it is
\* attached to.
C5_AttachmentsFollowRotation ==
    (last.op = "key_r" /\ ~DragActive)
        => \A a \in AttachedToSelection : OnLivePin(a)

\* C6: every committed wire and the wire under construction has at least one
\* point and as many attachments as points.
C6_WireShape ==
    LET WireShape(w) ==
            Len(w.points) >= 1 /\ Len(w.attachments) = Len(w.points)
    IN  /\ \A n \in 1..Len(wires) : WireShape(wires[n])
        /\ active_wire # None => WireShape(active_wire)

\* C7: no sequence of editor actions makes an operation fail.
C7_NoOperationFails == ~crashed

\* C8: while routing, a left click commits the wire under construction only
\* when it resolved to a pin (never when it resolved to a segment split), and
\* the attachment of the final point then names a component whose pin is at
\* that point.
C8_CommitOnlyOnPin ==
    [][ (last'.op = "left_down" /\ active_wire # None
            /\ Len(wires') = Len(wires) + 1)
        => LET w == wires'[Len(wires')]
               att == w.attachments[Len(w.attachments)]
           IN  /\ resolve_click(last'.mouse).kind = "pin"
               /\ att # None
               /\ att.comp # None
               /\ get_component_pins(Deref(att.comp, components', ghosts'))
                     [att.pin_idx + 1] = w.points[Len(w.points)] ]_vars

\* C9: a left click in Idle that resolves a target starts a wire of exactly
\* that one point, whose attachment is set if and only if the target was a
\* pin, and then names that pin.
C9_IdleToRouting ==
    [][ (last'.op = "left_down" /\ active_wire = None /\ active_wire' # None)
        => LET t == resolve_click(last'.mouse)
               att == active_wire'.attachments[1]
           IN  /\ active_wire'.points = << t.clicked_pin >>
               /\ Len(active_wire'.attachments) = 1
               /\ (att # None) <=> (t.kind = "pin")
               /\ t.kind = "pin" =>
                    get_component_pins(Deref(att.comp, components', ghosts'))
                        [att.pin_idx + 1] = t.clicked_pin ]_vars

\* C10: while routing, a left click away from every pin, wire vertex and wire
\* segment appends the orthogonal path to the grid-snapped pointer, commits
\* nothing and leaves the selection alone.
C10_GridFallback ==
    [][ (last'.op = "left_down" /\ active_wire # None
            /\ resolve_click(last'.mouse).kind = "none"
            /\ snap_to_wire_points(last'.mouse, wires) = None)
        => /\ active_wire' =
                extend_wire(active_wire, snap_to_grid(last'.mouse), last'.mouse)
           /\ wires' = wires
           /\ selected_components' = selected_components ]_vars

\* C11: a left click within the snap radius of a wire vertex, and of no pin,
\* resolves to that vertex (it becomes the last point of the wire under
\* construction) and splices nothing: the points of every wire stay as they
\* were.
C11_VertexBeforeSegment ==
    [][ (last'.op = "left_down"
            /\ snap_to_pins(last'.mouse, components, SNAP_RADIUS) = None
            /\ snap_to_wire_points(last'.mouse, wires) # None)
        => /\ \A n \in 1..Len(wires) : wires'[n].points = wires[n].points
           /\ active_wire' # None
           /\ active_wire'.points[Len(active_wire'.points)] =
                snap_to_wire_points(last'.mouse, wires) ]_vars

\* C12: for a and b not on a common axis and a reference point, the origin
\* included, orthogonal_path returns [corner, b] with the corner, of (b.x, a.y)
\* and (a.x, b.y), that is strictly nearer to the reference point.
C12_CornerChoice ==
    (call.fn = "orthogonal_path" /\ result.done /\ call.mouse # None
        /\ call.a[1] # call.b[1] /\ call.a[2] # call.b[2])
    => LET corner_hv == <<call.b[1], call.a[2]>>
           corner_vh == <<call.a[1], call.b[2]>>
           dist_hv == LengthSquared(Sub(corner_hv, call.mouse))
           dist_vh == LengthSquared(Sub(corner_vh, call.mouse))
       IN  /\ dist_hv < dist_vh => result.value = << corner_hv, call.b >>
           /\ dist_vh < dist_hv => result.value = << corner_vh, call.b >>

\* C13: for a and b not on a common axis and a reference point at equal
\* distance of the two corners, orthogonal_path returns [(b.x, a.y), b].
C13_CornerTieBreak ==
    (call.fn = "orthogonal_path" /\ result.done /\ call.mouse # None
        /\ call.a[1] # call.b[1] /\ call.a[2] # call.b[2]
        /\ LengthSquared(Sub(<<call.b[1], call.a[2]>>, call.mouse))
             = LengthSquared(Sub(<<call.a[1], call.b[2]>>, call.mouse)))
    => result.value = << <<call.b[1], call.a[2]>>, call.b >>

\* C14: for a and b on a common axis orthogonal_path returns [b], with or
\* without a reference point; for a and b on no common axis and no reference
\* point it returns [(b.x, a.y), b].
C14_PathBaseCases ==
    (call.fn = "orthogonal_path" /\ result.done)
    => /\ (call.a[1] = call.b[1] \/ call.a[2] = call.b[2])
            => result.value = << call.b >>
       /\ (call.a[1] # call.b[1] /\ call.a[2] # call.b[2] /\ call.mouse = None)
            => result.value = << <<call.b[1], call.a[2]>>, call.b >>

\* A call without a reference point that returned a corner and b.
C14_Witness ==
    /\ call.fn = "orthogonal_path" /\ result.done
    /\ call.mouse = None
    /\ call.a = <<0, 10>> /\ call.b = <<20, 0>>
    /\ result.value = << <<20, 10>>, <<20, 0>> >>

\* C15: clean_collinear_points applied to its own result returns that result,
\* for every list of points, repeated points included.
C15_CleanIdempotent ==
    (call.fn = "clean_collinear_points" /\ result.done)
    => clean_collinear_points(result.value) = result.value

\* C16: snap_to_pins returns None when no pin is within the radius, and
\* otherwise the first, in component and pin order, of the pins at the least
\* distance of the pointer.
C16_SnapToPinSelection ==
    (call.fn = "snap_to_pins" /\ result.done)
    => LET pins == Flatten([n \in 1..Len(call.components) |->
                              get_component_pins(call.components[n])])
           D(i) == LengthSquared(Sub(pins[i], call.mouse_world))
           within == { i \in 1..Len(pins) : D(i) <= call.radius * call.radius }
           best == { i \in within : \A j \in within : D(i) <= D(j) }
       IN  IF within = {} THEN result.value = None
           ELSE result.value = pins[CHOOSE i \in best : \A j \in best : i <= j]

\* C17: a rotate with an empty selection, and a delete-wire with no wire
\* segment within the radius of the pointer, leave the components, the wires,
\* the undo stack and the redo stack as they were.
C17_FailedPreconditionNoOp ==
    [][ /\ (last'.op = "key_r" /\ selected_components = << >>)
            => UNCHANGED <<components, wires, undo_stack, redo_stack>>
        /\ \A m \in MousePositions :
            (last'.op = "key_x" /\ KeyX(m)
                /\ find_wire_segment_at_mouse(wires, m, SNAP_RADIUS) = None)
            => UNCHANGED <<components, wires, undo_stack, redo_stack>> ]_vars

\* C18: undo with an empty undo stack, and redo with an empty redo stack,
\* change neither the components, nor the wires, nor either stack, and raise
\* no error.
C18_EmptyStackNoOp ==
    [][ ((last'.op = "undo" /\ undo_stack = << >>)
            \/ (last'.op = "redo" /\ redo_stack = << >>))
        => /\ UNCHANGED <<components, ghosts, wires, undo_stack, redo_stack>>
           /\ ~crashed' ]_vars

\* An undo that found the undo stack empty has just been handled.
C18_Witness ==
    last.op = "undo" /\ ~last.restored /\ undo_stack = << >>

\* The component object a reference held in a snapshot names, given the
\* component objects that exist; a reference to an object that is gone names
\* nothing.
SnapshotDeref(ref, comps, ghs) ==
    CASE ref.k = "copy" -> ref.v
      [] ref.k = "live" -> IF ref.i <= Len(comps) THEN comps[ref.i] ELSE [gone |-> TRUE]
      [] ref.k = "ghost" -> IF ref.i <= Len(ghs) THEN ghs[ref.i] ELSE [gone |-> TRUE]

\* A wire list of a snapshot by value: points, and for every attachment the
\* data of the component it holds and the pin index.
SnapshotWires(ws, comps, ghs) ==
    [n \in 1..Len(ws) |->
        [points |-> ws[n].points,
         attachments |->
            [j \in 1..Len(ws[n].attachments) |->
                IF ws[n].attachments[j] = None \/ ws[n].attachments[j].comp = None
                THEN ws[n].attachments[j]
                ELSE [comp |-> SnapshotDeref(ws[n].attachments[j].comp, comps, ghs),
                      pin_idx |-> ws[n].attachments[j].pin_idx]]]]

\* The component and wire data a stored snapshot holds.
SnapshotData(s, comps, ghs) ==
    [components |-> s.components, wires |-> SnapshotWires(s.wires, comps, ghs)]

\* C19: every snapshot that stays on the undo stack or on the redo stack over
\* an event holds the same component and wire data after the event as before
\* it, whatever the event did to the live scene.
C19_SnapshotIndependence ==
    [][ /\ \A n \in 1..Min(Len(undo_stack), Len(undo_stack')) :
              SnapshotData(undo_stack'[n], components', ghosts')
                  = SnapshotData(undo_stack[n], components, ghosts)
        /\ \A n \in 1..Min(Len(redo_stack), Len(redo_stack')) :
              SnapshotData(redo_stack'[n], components', ghosts')
                  = SnapshotData(redo_stack[n], components, ghosts) ]_vars

\* A drag or a rotation has just been handled, and the undo stack holds a
\* snapshot with a wire attached to a component as it was before: no live
\* component has that position and rotation any more.
C19_Witness ==
    /\ last.op \in {"drag_frame", "key_r"}
    /\ \E n \in 1..Len(undo_stack) : \E w \in 1..Len(undo_stack[n].wires) :
          \E r \in WireRefs(undo_stack[n].wires[w]) :
              /\ r.k = "copy"
              /\ \A i \in 1..Len(components) : components[i] # r.v

\* C20: every component of the live scene has a position whose x and y are
\* multiples of GRID_SIZE and a rotation in {0, 90, 180, 270}.
C20_ComponentInvariant ==
    \A i \in 1..Len(components) :
        /\ components[i].pos[1] % GRID_SIZE = 0
        /\ components[i].pos[2] % GRID_SIZE = 0
        /\ components[i].rotation \in {0, 90, 180, 270}

\* A drag frame has just moved a component that was rotated before: the
\* snapshot on top of the undo stack still has it at its previous position.
C20_Witness ==
    /\ last.op = "drag_frame"
    /\ undo_stack # << >>
    /\ \E i \in 1..Len(components) :
          /\ components[i].rotation # 0
          /\ i <= Len(undo_stack[Len(undo_stack)].components)
          /\ undo_stack[Len(undo_stack)].components[i].pos # components[i].pos

\* C21: the place action appends exactly one resistor at snap_to_grid(pointer)
\* with rotation 0 (a pointer at x = 100 gives x = 80), pushes a snapshot of
\* the scene before the placement onto the undo stack, and leaves the existing
\* components, the wires, the active wire and the selection unchanged.
C21_PlaceComponent ==
    [][ last'.op = "place"
        => /\ components' = Append(components,
                                   [type |-> "resistor",
                                    pos |-> snap_to_grid(last'.mouse),
                                    rotation |-> 0])
           /\ last'.mouse = <<100, 0>> => components'[Len(components')].pos = <<80, 0>>
           /\ undo_stack' = Append(undo_stack, Scene)
           /\ UNCHANGED <<ghosts, wires, active_wire, selected_components>> ]_vars

\* A second component has just been placed with the pointer at (100, 0) in a
\* scene that already held a component and a wire.
C21_Witness ==
    /\ last.op = "place"
    /\ last.mouse = <<100, 0>>
    /\ Len(components) = 2
    /\ wires # << >>

\* C22: when the left button is released over a selection rectangle, a
\* component is selected if and only if its screen position lies inside the
\* rectangle or on one of its four edges, the right and bottom edges included.
C22_InclusiveBoxSelection ==
    [][ (LeftUp(FALSE) /\ selection_rect # None)
        => \A i \in 1..Len(components) :
              LET p == world_to_screen(components[i].pos, camera_offset)
                  r == selection_rect
              IN  (\E n \in 1..Len(selected_components') :
                        selected_components'[n] = Live(i))
                  <=> (/\ r.x <= p[1] /\ p[1] <= r.x + r.w
                       /\ r.y <= p[2] /\ p[2] <= r.y + r.h) ]_vars

\* C23: with the multi-select modifier held, after the release that ends a box
\* selection every component inside the box is in the selection, and after a
\* click on a component body the clicked component is in the selection, as
\* the object it is: a selected component with equal type, position and
\* rotation does not stand for it.
C23_SelectionByIdentity ==
    [][ /\ (LeftUp(TRUE) /\ RectTruthy(selection_rect))
           => \A i \in 1..Len(components) :
                 collidepoint(selection_rect,
                              world_to_screen(components[i].pos, camera_offset))
                 => \E n \in 1..Len(selected_components') :
                       selected_components'[n] = Live(i)
        /\ (/\ last'.op = "left_down"
            /\ LeftDown(last'.mouse, TRUE)
            /\ snap_to_pins(last'.mouse, components, SNAP_RADIUS) = None
            /\ find_wire_segment_at_mouse(wires, last'.mouse, SNAP_RADIUS) = None
            /\ clicked_component(last'.mouse) # 0)
           => \E n \in 1..Len(selected_components') :
                 selected_components'[n] = Live(clicked_component(last'.mouse)) ]_vars

\* C24: every attachment of every committed wire that holds a component holds
\* one of the component objects of the live scene's component list.
C24_AttachmentsReferenceLive ==
    \A w \in 1..Len(wires) : \A j \in 1..Len(wires[w].attachments) :
        (wires[w].attachments[j] # None /\ wires[w].attachments[j].comp # None)
        => wires[w].attachments[j].comp.k = "live"

\* C25: every component of the selection is one of the component objects of
\* the live scene's component list.
C25_SelectionReferencesLive ==
    \A n \in 1..Len(selected_components) : selected_components[n].k = "live"

\* C26: every two consecutive points of every committed wire share their x or
\* their y coordinate: every segment is horizontal or vertical.
C26_WiresOrthogonal ==
    \A w \in 1..Len(wires) : \A j \in 1..(Len(wires[w].points) - 1) :
        \/ wires[w].points[j][1] = wires[w].points[j + 1][1]
        \/ wires[w].points[j][2] = wires[w].points[j + 1][2]

\* C27: every committed wire has at least two points, hence at least one
\* segment for the delete-wire action to hit.
C27_WireHasSegment ==
    \A w \in 1..Len(wires) : Len(wires[w].points) >= 2

\* C28: a redo right after an undo that found a snapshot, and an undo right
\* after a redo that found one, bring back the scene (by value), the undo
\* stack and the redo stack the first of the two started from; and a single
\* undo or redo leaves the number of snapshots on the two stacks together
\* unchanged.
C28_UndoRedoInverse ==
    [][ /\ (/\ last.restored
            /\ \/ last.op = "undo" /\ last'.op = "redo"
               \/ last.op = "redo" /\ last'.op = "undo")
           => /\ Scene' = last.before.scene
              /\ undo_stack' = last.before.undo_stack
              /\ redo_stack' = last.before.redo_stack
        /\ last'.op \in {"undo", "redo"}
           => Len(undo_stack') + Len(redo_stack')
                = Len(undo_stack) + Len(redo_stack) ]_vars

\* A redo has just followed an undo, both having restored a snapshot, in a
\* scene with a wire; and the stacks hold snapshots on both sides.
C28_Witness ==
    /\ last.op = "redo"
    /\ last.pair
    /\ wires # << >>
    /\ undo_stack # << >>

=============================================================================
